---- MODULE Spec2Model ----
(***************************************************************************)
(* FlagHoist: the client page (geolocation, debounced fetch of nearby      *)
(* places, distance annotation and ranking, selection and driving route)   *)
(* and the /api/places proxy handler.                                      *)
(*                                                                         *)
(* Numbers: JavaScript doubles are modelled in fixed point (Scale units    *)
(* per 1.0) with sign-symmetric truncation, the property of IEEE rounding  *)
(* that the distance computation depends on.  NaN is a distinguished       *)
(* value that every arithmetic operation propagates.                       *)
(***************************************************************************)
EXTENDS Integers, Sequences, FiniteSets, TLC

\* ------------------------------------------------------------------------
\* Numbers
\* ------------------------------------------------------------------------

\* The not-a-number value of a JavaScript number.
NaN == -999999

\* Fixed-point unit: Scale stands for 1.0.
Scale == 10 ^ 4

\* Math.PI in fixed point.
PiFx == 31416

\* Earth radius in km (const R).
R == 6371

isNaN(x) == x = NaN

Abs(x) == IF x < 0 THEN -x ELSE x

\* a / b for b > 0, truncated toward zero: -(a / b) = (-a) / b, as in IEEE.
FDiv(a, b) ==
  IF isNaN(a) THEN NaN
  ELSE IF a < 0 THEN -((-a) \div b) ELSE a \div b

\* a * b of two fixed-point numbers.
FMul(a, b) ==
  IF isNaN(a) \/ isNaN(b) THEN NaN ELSE FDiv(a * b, Scale)

FAdd(a, b) == IF isNaN(a) \/ isNaN(b) THEN NaN ELSE a + b

FSub(a, b) == IF isNaN(a) \/ isNaN(b) THEN NaN ELSE a - b

\* (deg * Math.PI) / 180 for a whole number of degrees.
ToRad(deg) == IF isNaN(deg) THEN NaN ELSE FDiv(deg * PiFx, 180)

\* One Horner step of a Taylor series: 1 - (x2 * t) / k.
Horner(x2, t, k) == Scale - FDiv(FMul(x2, t), k)

\* Math.sin on [-pi, pi]: x (1 - x2/6 (1 - x2/20 (1 - x2/42 ( ... )))).
Sin(x) ==
  IF isNaN(x) THEN NaN
  ELSE LET x2 == FMul(x, x)
           t7 == Horner(x2, Scale, 210)
           t6 == Horner(x2, t7, 156)
           t5 == Horner(x2, t6, 110)
           t4 == Horner(x2, t5, 72)
           t3 == Horner(x2, t4, 42)
           t2 == Horner(x2, t3, 20)
           t1 == Horner(x2, t2, 6)
       IN  FMul(x, t1)

\* Math.cos on [-pi/2, pi/2]: 1 - x2/2 (1 - x2/12 (1 - x2/30 ( ... ))).
Cos(x) ==
  IF isNaN(x) THEN NaN
  ELSE LET x2 == FMul(x, x)
           t7 == Horner(x2, Scale, 182)
           t6 == Horner(x2, t7, 132)
           t5 == Horner(x2, t6, 90)
           t4 == Horner(x2, t5, 56)
           t3 == Horner(x2, t4, 30)
           t2 == Horner(x2, t3, 12)
       IN  Horner(x2, t2, 2)

RECURSIVE ISqrt(_, _, _)
\* The largest r in lo..hi with r * r <= n (bisection).
ISqrt(n, lo, hi) ==
  IF lo >= hi THEN lo
  ELSE LET mid == (lo + hi + 1) \div 2
       IN  IF mid * mid <= n THEN ISqrt(n, mid, hi) ELSE ISqrt(n, lo, mid - 1)

\* Math.sqrt: NaN for a negative argument.
Sqrt(a) ==
  IF isNaN(a) \/ a < 0 THEN NaN ELSE ISqrt(a * Scale, 0, 4 * Scale)

\* atan on [0, 1]: t pi/4 + t (1 - t) (0.2447 + 0.0663 t).
Atan01(t) ==
  FDiv(t * PiFx, 4 * Scale) + FMul(FMul(t, Scale - t), 2447 + FMul(663, t))

\* Math.atan2 for y >= 0, x >= 0.
Atan2(y, x) ==
  IF isNaN(y) \/ isNaN(x) THEN NaN
  ELSE IF y = 0 THEN 0
  ELSE IF y <= x THEN Atan01(FDiv(y * Scale, x))
  ELSE FDiv(PiFx, 2) - Atan01(FDiv(x * Scale, y))

\* The haversine term a.
HavA(lat1, lon1, lat2, lon2) ==
  LET dLat == ToRad(FSub(lat2, lat1))
      dLon == ToRad(FSub(lon2, lon1))
      sLat == Sin(FDiv(dLat, 2))
      sLon == Sin(FDiv(dLon, 2))
  IN  FAdd(FMul(sLat, sLat),
           FMul(FMul(FMul(Cos(ToRad(lat1)), Cos(ToRad(lat2))), sLon), sLon))

\* A faulty variant of calculateDistance: the cosine of lat1 is used for both points.
HavAOneCos(lat1, lon1, lat2, lon2) ==
  LET dLat == ToRad(FSub(lat2, lat1))
      dLon == ToRad(FSub(lon2, lon1))
      sLat == Sin(FDiv(dLat, 2))
      sLon == Sin(FDiv(dLon, 2))
  IN  FAdd(FMul(sLat, sLat),
           FMul(FMul(FMul(Cos(ToRad(lat1)), Cos(ToRad(lat1))), sLon), sLon))

calculateDistanceOneCos(lat1, lon1, lat2, lon2) ==
  LET a == HavAOneCos(lat1, lon1, lat2, lon2)
      c == FMul(2 * Scale, Atan2(Sqrt(a), Sqrt(FSub(Scale, a))))
  IN  IF isNaN(c) THEN NaN ELSE FDiv(R * c, Scale)

\* calculateDistance: great-circle distance in km (whole km here).
calculateDistance(lat1, lon1, lat2, lon2) ==
  LET a == HavA(lat1, lon1, lat2, lon2)
      c == FMul(2 * Scale, Atan2(Sqrt(a), Sqrt(FSub(Scale, a))))
  IN  IF isNaN(c) THEN NaN ELSE FDiv(R * c, Scale)

\* ------------------------------------------------------------------------
\* Values
\* ------------------------------------------------------------------------

\* null / undefined and a present value.
Null == <<>>

Some(x) == <<x>>

\* debounce(..., 500): the wait in ms.
Wait == 500

\* The clock advances in steps of half the wait.
TickMs == Wait \div 2

\* How many times the mount effect may run getLocation.
MaxMounts == 2

\* The longest result list the upstream service returns.
MaxPlaces == 2

\* How many requests the proxy receives.
MaxProxyReqs == 2

\* calculateDistance is exercised on a grid of this many steps of latitude
\* (from -90 to 90) and of longitude (from -180 to 180).
LatSteps == 4

LngSteps == 4

Grid ==
  { [lat |-> -90 + (180 * i) \div LatSteps, lng |-> -180 + (360 * j) \div LngSteps] :
      i \in 0..LatSteps, j \in 0..LngSteps }

ErrDenied == "Please enable location access to find nearby locations."

ErrUnsupported == "Geolocation is not supported by your browser."

ErrInvalid == "Invalid coordinates received. Unable to fetch locations."

ErrFetch == "Failed to fetch locations."

\* Positions the geolocation source may report (position.coords).
GeoCoords ==
  { [lat |-> 20, lng |-> 70], [lat |-> 45, lng |-> 0], [lat |-> NaN, lng |-> 70] }

\* Places of the upstream service: geometry.location and a name (id).
\* A place without geometry stands for an element that is not a place.
Places ==
  { [id |-> 1, lat |-> 20, lng |-> 70, geometry |-> TRUE],
    [id |-> 2, lat |-> 30, lng |-> 70, geometry |-> TRUE],
    [id |-> 3, lat |-> 45, lng |-> 10, geometry |-> TRUE],
    [id |-> 4, lat |-> 0, lng |-> 0, geometry |-> FALSE] }

\* Sequences over S of length at most n, without repetition.
RECURSIVE SeqsUpTo(_, _)
SeqsUpTo(S, n) ==
  IF n = 0 THEN { <<>> }
  ELSE LET shorter == SeqsUpTo(S, n - 1)
       IN  shorter \cup
           { Append(q, x) : q \in { r \in shorter : Len(r) = n - 1 },
                            x \in S }

Range(q) == { q[i] : i \in 1..Len(q) }

\* response.data.results of the upstream service.
ResultLists ==
  { q \in SeqsUpTo(Places, MaxPlaces) : Cardinality(Range(q)) = Len(q) }

\* ------------------------------------------------------------------------
\* State
\* ------------------------------------------------------------------------

VARIABLES
  userLocation,      \* useState<UserLocation | null>
  locations,         \* useState<PlaceResult[]>: the ResultSet
  loading,           \* useState(false)
  error,             \* useState(""): the error slot
  selectedLocation,  \* useState<PlaceResult | null>
  directionsResult,  \* useState<DirectionsResult | null>: the stored route
  geoSupported,      \* navigator.geolocation is present
  geoPending,        \* getCurrentPosition requests not yet called back
  mounts,            \* how many times the mount effect has run getLocation
  timerId,           \* debounce: Null, or the ms left on the pending timer
  lastArgs,          \* debounce: the arguments of the latest call, or Null
  sinceCall,         \* debounce: ms since lastCallTime, capped at Wait
  fetches,           \* fetch bodies awaiting the response of /api/places
  routeReqs,         \* route requests the directions service has not answered
  hist,              \* what has happened so far (observation only)
  proxyReqs,         \* the proxy: requests received by GET, in order
  dIn,               \* calculateDistance: a pair of coordinates
  dOut               \* calculateDistance: the results for the pair

clientVars ==
  << userLocation, locations, loading, error, selectedLocation,
     directionsResult, geoSupported, geoPending, mounts, timerId, lastArgs,
     sinceCall, fetches, routeReqs, hist >>

vars == << clientVars, proxyReqs, dIn, dOut >>

\* ------------------------------------------------------------------------
\* The Location Proxy: GET /api/places
\* ------------------------------------------------------------------------

\* searchParams.get(name): Null when absent, else the (possibly empty) text.
LatValues == { Null, Some(""), Some("20") }

LngValues == { Null, Some(""), Some("70") }

\* What axios.get may do: throw, or return a body holding a results list.
UpstreamOutcomes ==
  { [ok |-> FALSE, results |-> <<>>] } \cup
  { [ok |-> TRUE, results |-> q] : q \in ResultLists }

\* The JSON body of a response: a list, an error object, or no JSON at all.
ListBody(q) == [tag |-> "list", list |-> q, error |-> ""]

ErrorBody(msg) == [tag |-> "error", list |-> <<>>, error |-> msg]

NoJsonBody == [tag |-> "text", list |-> <<>>, error |-> ""]

\* A faulty variant of the guard: only a request missing both parameters is refused.
MissingBoth(lat, lng) ==
  (lat = Null \/ lat = Some("")) /\ (lng = Null \/ lng = Some(""))

\* if (!lat || !lng)
MissingCoordinates(lat, lng) ==
  lat = Null \/ lat = Some("") \/ lng = Null \/ lng = Some("")

\* NextResponse.json({ error: "Missing coordinates" }, { status: 400 })
Response400 == [status |-> 400, body |-> ErrorBody("Missing coordinates")]

\* NextResponse.json({ error: "Failed to fetch locations" }, { status: 500 })
Response500 == [status |-> 500, body |-> ErrorBody("Failed to fetch locations")]

\* NextResponse.json(response.data.results)
Response200(results) == [status |-> 200, body |-> ListBody(results)]

\* The try / catch around the upstream call.
AfterUpstream(outcome) ==
  IF outcome.ok THEN Response200(outcome.results) ELSE Response500

\* GET runs to its first await: it answers 400, or calls the upstream once.
GETReceive(lat, lng) ==
  /\ Len(proxyReqs) < MaxProxyReqs
  /\ proxyReqs' = Append(proxyReqs,
       IF MissingCoordinates(lat, lng)
       THEN [lat |-> lat, lng |-> lng, pc |-> "done", calls |-> 0,
             outcome |-> Null, response |-> Some(Response400)]
       ELSE [lat |-> lat, lng |-> lng, pc |-> "await", calls |-> 1,
             outcome |-> Null, response |-> Null])
  /\ UNCHANGED << clientVars, dIn, dOut >>

\* The upstream call settles and GET answers.
GETResume(i, outcome) ==
  /\ i \in 1..Len(proxyReqs)
  /\ proxyReqs[i].pc = "await"
  /\ proxyReqs' = [proxyReqs EXCEPT ![i] =
       [@ EXCEPT !.pc = "done", !.outcome = Some(outcome),
                 !.response = Some(AfterUpstream(outcome))]]
  /\ UNCHANGED << clientVars, dIn, dOut >>

\* The whole handler as a function of its inputs and the upstream's outcome.
GET(lat, lng, outcome) ==
  IF MissingCoordinates(lat, lng) THEN Response400 ELSE AfterUpstream(outcome)

\* ------------------------------------------------------------------------
\* The Location Fetcher: annotate and rank
\* ------------------------------------------------------------------------

\* Infinity, above every distance.
Infinity == 10 ^ 9

\* The coordinates the page meets: reported positions and places.
Points ==
  { [lat |-> c.lat, lng |-> c.lng] : c \in GeoCoords } \cup
  { [lat |-> p.lat, lng |-> p.lng] : p \in Places }

\* calculateDistance tabulated over Points (evaluated once).
DistanceTable ==
  [a \in Points, b \in Points |->
     calculateDistance(a.lat, a.lng, b.lat, b.lng)]

\* .map(location => ({ ...location, distance: calculateDistance(...) }))
Annotate(data, lat, lng) ==
  [i \in 1..Len(data) |->
     [id |-> data[i].id, lat |-> data[i].lat, lng |-> data[i].lng,
      geometry |-> data[i].geometry,
      distance |-> DistanceTable[[lat |-> lat, lng |-> lng],
                                 [lat |-> data[i].lat, lng |-> data[i].lng]]]]

\* (x.distance || Infinity): 0 and NaN are falsy.
OrInfinity(d) == IF d = 0 \/ isNaN(d) THEN Infinity ELSE d

\* The sign of (a.distance || Infinity) - (b.distance || Infinity); the
\* difference of two infinities is NaN, which sort reads as +0.
Comparator(a, b) ==
  LET ka == OrInfinity(a.distance)
      kb == OrInfinity(b.distance)
  IN  IF ka = Infinity /\ kb = Infinity THEN 0
      ELSE IF ka < kb THEN -1
      ELSE IF ka > kb THEN 1
      ELSE 0

RECURSIVE Insert(_, _)
\* x placed after every element that does not compare greater (stable).
Insert(q, x) ==
  IF q = <<>> THEN << x >>
  ELSE IF Comparator(Head(q), x) <= 0 THEN << Head(q) >> \o Insert(Tail(q), x)
  ELSE << x >> \o q

RECURSIVE SortFrom(_, _)
SortFrom(q, acc) ==
  IF q = <<>> THEN acc ELSE SortFrom(Tail(q), Insert(acc, Head(q)))

\* Array.prototype.sort with the comparator above (a stable sort).
Sort(q) == SortFrom(q, <<>>)

\* The map and sort of the body tabulated over the lists and positions the
\* page meets (evaluated once).
PublishTable ==
  [q \in ResultLists, c \in Points |-> Sort(Annotate(q, c.lat, c.lng))]

\* What setLocations receives: the whole list, annotated, then sorted.
Publish(data, lat, lng) == PublishTable[data, [lat |-> lat, lng |-> lng]]

\* A faulty variant of the NaN guard: both coordinates must be NaN.
BothNaN(lat, lng) == isNaN(lat) /\ isNaN(lng)

\* if (isNaN(lat) || isNaN(lng))
InvalidCoordinates(lat, lng) == isNaN(lat) \/ isNaN(lng)

\* What `await fetch(...)` and `await response.json()` may give the body
\* started with (lat, lng): a rejected transport call, a body that is no
\* JSON, or the proxy's answer to ?lat=${lat}&lng=${lng}.
ClientResponses(lat, lng) ==
  { [arrived |-> FALSE, status |-> 0, body |-> NoJsonBody],
    [arrived |-> TRUE, status |-> 502, body |-> NoJsonBody] } \cup
  { [arrived |-> TRUE, status |-> g.status, body |-> g.body] :
      g \in { GET(Some(ToString(lat)), Some(ToString(lng)), o) :
                o \in UpstreamOutcomes } }

\* The try block throws: fetch rejects, json() rejects, data.map is not a
\* function, or location.geometry is undefined for some element.
Throws(resp) ==
  \/ ~resp.arrived
  \/ resp.body.tag # "list"
  \/ \E i \in 1..Len(resp.body.list) : ~resp.body.list[i].geometry

\* ------------------------------------------------------------------------
\* The client page
\* ------------------------------------------------------------------------

Min(a, b) == IF a < b THEN a ELSE b

notProxyOrDist == << proxyReqs, dIn, dOut >>

\* The mount effect runs getLocation.
GetLocation ==
  /\ mounts < MaxMounts
  /\ mounts' = mounts + 1
  /\ IF geoSupported
     THEN geoPending' = geoPending + 1 /\ UNCHANGED error
     ELSE error' = ErrUnsupported /\ UNCHANGED geoPending
  /\ hist' = [hist EXCEPT !.last = "getLocation"]
  /\ UNCHANGED << userLocation, locations, loading, selectedLocation,
                  directionsResult, geoSupported, timerId, lastArgs,
                  sinceCall, fetches, routeReqs >>
  /\ UNCHANGED notProxyOrDist

\* The error callback of getCurrentPosition.
GeoError ==
  /\ geoPending > 0
  /\ geoPending' = geoPending - 1
  /\ error' = ErrDenied
  /\ hist' = [hist EXCEPT !.last = "GeoError"]
  /\ UNCHANGED << userLocation, locations, loading, selectedLocation,
                  directionsResult, geoSupported, mounts, timerId, lastArgs,
                  sinceCall, fetches, routeReqs >>
  /\ UNCHANGED notProxyOrDist

\* The success callback of getCurrentPosition sets userLocation, and the
\* effect on userLocation calls the debounced fetchLocations: the call is
\* recorded (lastArgs, lastCallTime) and starts the timer if none is pending.
\* A timer that is due runs before a callback arriving at the same instant.
GeoSuccess(c) ==
  /\ geoPending > 0
  /\ timerId # Some(0)
  /\ geoPending' = geoPending - 1
  /\ userLocation' = Some(c)
  /\ lastArgs' = Some(c)
  /\ sinceCall' = 0
  /\ timerId' = IF timerId = Null THEN Some(Wait) ELSE timerId
  /\ hist' = [hist EXCEPT
       !.last = "GeoSuccess",
       !.calls = @ + 1,
       !.bursts = IF hist.calls = 0 \/ hist.since >= Wait THEN @ + 1 ELSE @,
       !.since = 0,
       !.lastCall = Some(c)]
  /\ UNCHANGED << locations, loading, error, selectedLocation,
                  directionsResult, geoSupported, mounts, fetches, routeReqs >>
  /\ UNCHANGED notProxyOrDist

\* Time passes, up to the moment the pending timer is due.
Tick ==
  /\ timerId # Null
  /\ timerId[1] > 0
  /\ timerId' = Some(timerId[1] - TickMs)
  /\ sinceCall' = Min(sinceCall + TickMs, Wait)
  /\ hist' = [hist EXCEPT !.last = "Tick", !.since = Min(@ + TickMs, Wait)]
  /\ UNCHANGED << userLocation, locations, loading, error, selectedLocation,
                  directionsResult, geoSupported, geoPending, mounts,
                  lastArgs, fetches, routeReqs >>
  /\ UNCHANGED notProxyOrDist

\* A faulty variant of shouldInvoke: the first expiry of the timer invokes.
shouldInvokeAlways(since) == TRUE

\* debounce's shouldInvoke at timer expiry: the wait has passed since the
\* latest call.
shouldInvoke(since) == since >= Wait

\* The body of fetchLocations up to its first await.
FetchBody(c) ==
  /\ IF InvalidCoordinates(c.lat, c.lng)
     THEN /\ error' = ErrInvalid
          /\ UNCHANGED << loading, fetches >>
          /\ hist' = [hist EXCEPT !.last = "Invoke", !.execs = @ + 1,
                        !.nanExecs = @ + 1, !.execArgs = Some(c)]
     ELSE /\ loading' = TRUE
          /\ fetches' = fetches \cup
               { [id |-> hist.requests + 1, lat |-> c.lat, lng |-> c.lng,
                  before |-> locations] }
          /\ UNCHANGED error
          /\ hist' = [hist EXCEPT !.last = "Invoke", !.execs = @ + 1,
                        !.requests = @ + 1, !.execArgs = Some(c)]

\* debounce's timerExpired: the trailing edge invokes the body with the
\* latest arguments, or the timer is restarted for the remaining wait.
TimerExpired ==
  /\ timerId = Some(0)
  /\ IF shouldInvoke(sinceCall)
     THEN /\ timerId' = Null
          /\ lastArgs' = Null
          /\ UNCHANGED sinceCall
          /\ IF lastArgs # Null
             THEN FetchBody(lastArgs[1])
             ELSE /\ UNCHANGED << loading, fetches, error >>
                  /\ hist' = [hist EXCEPT !.last = "Expired"]
     ELSE /\ timerId' = Some(Wait - sinceCall)
          /\ hist' = [hist EXCEPT !.last = "Restart"]
          /\ UNCHANGED << lastArgs, sinceCall, loading, fetches, error >>
  /\ UNCHANGED << userLocation, locations, selectedLocation,
                  directionsResult, geoSupported, geoPending, mounts,
                  routeReqs >>
  /\ UNCHANGED notProxyOrDist

\* The part of a list before its first element without geometry.
RECURSIVE WellFormedPrefix(_)
WellFormedPrefix(q) ==
  IF q = <<>> \/ ~Head(q).geometry THEN <<>>
  ELSE << Head(q) >> \o WellFormedPrefix(Tail(q))

\* A faulty variant: the places mapped before the throw are published.
FetchOutcomePartial(f, resp) ==
  IF Throws(resp)
  THEN [ok |-> FALSE,
        locations |-> IF resp.arrived /\ resp.body.tag = "list"
                      THEN Publish(WellFormedPrefix(resp.body.list), f.lat, f.lng)
                      ELSE locations,
        error |-> ErrFetch]
  ELSE [ok |-> TRUE, locations |-> Publish(resp.body.list, f.lat, f.lng),
        error |-> error]

\* A faulty variant: a response older than one already applied is dropped.
FetchOutcomeGuarded(f, resp) ==
  IF Throws(resp)
  THEN [ok |-> FALSE, locations |-> locations, error |-> ErrFetch]
  ELSE [ok |-> TRUE,
        locations |-> IF f.id < hist.newest THEN locations
                      ELSE Publish(resp.body.list, f.lat, f.lng),
        error |-> error]

\* A faulty variant: a successful fetch clears the error slot.
FetchOutcomeClearing(f, resp) ==
  IF Throws(resp)
  THEN [ok |-> FALSE, locations |-> locations, error |-> ErrFetch]
  ELSE [ok |-> TRUE, locations |-> Publish(resp.body.list, f.lat, f.lng),
        error |-> ""]

\* The try / catch of the body after its awaits: the ResultSet and the
\* error slot it leaves.
FetchOutcome(f, resp) ==
  IF Throws(resp)
  THEN [ok |-> FALSE, locations |-> locations, error |-> ErrFetch]
  ELSE [ok |-> TRUE, locations |-> Publish(resp.body.list, f.lat, f.lng),
        error |-> error]

\* The response of a fetch in flight arrives (in any order) and the body
\* runs to its end: try, catch, finally.
FetchSettle(f, resp) ==
  /\ f \in fetches
  /\ LET out == FetchOutcome(f, resp)
     IN  /\ locations' = out.locations
         /\ error' = out.error
         /\ hist' = [hist EXCEPT
              !.last = IF out.ok THEN "FetchOk" ELSE "FetchFail",
              !.f = Some(f),
              !.data = IF out.ok THEN resp.body.list ELSE <<>>,
              !.applied = IF out.ok THEN f.id ELSE @,
              !.newest = IF out.ok /\ f.id > @ THEN f.id ELSE @]
  /\ loading' = FALSE
  /\ fetches' = fetches \ { f }
  /\ UNCHANGED << userLocation, selectedLocation, directionsResult,
                  geoSupported, geoPending, mounts, timerId, lastArgs,
                  sinceCall, routeReqs >>
  /\ UNCHANGED notProxyOrDist

\* A click on the i-th card of the list (rendered when a position is known,
\* nothing is loading and the list is not empty): the selection is set and
\* the directions service is asked for the route to it.
SelectLocation(i) ==
  /\ userLocation # Null
  /\ ~loading
  /\ i \in 1..Len(locations)
  /\ selectedLocation' = Some(locations[i])
  /\ routeReqs' = routeReqs \cup
       { [origin |-> userLocation[1],
          dest |-> [lat |-> locations[i].lat, lng |-> locations[i].lng]] }
  /\ hist' = [hist EXCEPT !.last = "Select"]
  /\ UNCHANGED << userLocation, locations, loading, error, directionsResult,
                  geoSupported, geoPending, mounts, timerId, lastArgs,
                  sinceCall, fetches >>
  /\ UNCHANGED notProxyOrDist

\* The callback of the directions service.
RouteSettle(r, ok) ==
  /\ r \in routeReqs
  /\ routeReqs' = routeReqs \ { r }
  /\ directionsResult' = IF ok THEN Some(r) ELSE directionsResult
  /\ hist' = [hist EXCEPT !.last = IF ok THEN "RouteOk" ELSE "RouteFail"]
  /\ UNCHANGED << userLocation, locations, loading, error, selectedLocation,
                  geoSupported, geoPending, mounts, timerId, lastArgs,
                  sinceCall, fetches >>
  /\ UNCHANGED notProxyOrDist

HistInit ==
  [last |-> "Init", calls |-> 0, bursts |-> 0, execs |-> 0, nanExecs |-> 0,
   requests |-> 0, since |-> Wait, lastCall |-> Null, execArgs |-> Null,
   f |-> Null, data |-> <<>>, applied |-> 0, newest |-> 0]

\* The page as constructed: the useState initial values, no timer.
ClientInit ==
  /\ userLocation = Null
  /\ locations = <<>>
  /\ loading = FALSE
  /\ error = ""
  /\ selectedLocation = Null
  /\ directionsResult = Null
  /\ geoSupported \in BOOLEAN
  /\ geoPending = 0
  /\ mounts = 0
  /\ timerId = Null
  /\ lastArgs = Null
  /\ sinceCall = Wait
  /\ fetches = {}
  /\ routeReqs = {}
  /\ hist = HistInit

Init ==
  /\ ClientInit
  /\ proxyReqs = <<>>
  /\ dIn = << >>
  /\ dOut = << >>

\* The fetch pipeline: geolocation, the debounced fetch and its responses.
Next ==
  \/ GetLocation
  \/ GeoError
  \/ \E c \in GeoCoords : GeoSuccess(c)
  \/ Tick
  \/ TimerExpired
  \/ \E f \in fetches : \E resp \in ClientResponses(f.lat, f.lng) :
       FetchSettle(f, resp)

Spec == Init /\ [][Next]_vars

\* The whole page, with selection and route, for one reported position, the
\* upstream answering with both places of the neighbourhood or failing.
PageCoords == { c \in GeoCoords : c.lng = 70 }

PageOutcomes ==
  { o \in UpstreamOutcomes :
      ~o.ok \/ (Len(o.results) = 2 /\ o.results[1].id = 1 /\ o.results[2].id = 2) }

PageResponses(f) ==
  { r \in ClientResponses(f.lat, f.lng) :
      \E o \in PageOutcomes : r.arrived /\ r.body = AfterUpstream(o).body }

NextPage ==
  \/ GetLocation
  \/ GeoError
  \/ \E c \in PageCoords : GeoSuccess(c)
  \/ Tick
  \/ TimerExpired
  \/ \E f \in fetches : \E resp \in PageResponses(f) : FetchSettle(f, resp)
  \/ \E i \in 1..Len(locations) : SelectLocation(i)
  \/ \E r \in routeReqs : \E ok \in BOOLEAN : RouteSettle(r, ok)

SpecPage == Init /\ [][NextPage]_vars

\* ------------------------------------------------------------------------
\* The proxy and the distance calculator on their own
\* ------------------------------------------------------------------------

\* The page as constructed, in a browser with geolocation.
ClientIdle == ClientInit /\ geoSupported

ProxyInit ==
  /\ ClientIdle
  /\ proxyReqs = <<>>
  /\ dIn = << >>
  /\ dOut = << >>

NextProxy ==
  \/ \E lat \in LatValues : \E lng \in LngValues : GETReceive(lat, lng)
  \/ \E i \in 1..Len(proxyReqs) : \E o \in UpstreamOutcomes : GETResume(i, o)

SpecProxy == ProxyInit /\ [][NextProxy]_vars

\* calculateDistance is called on the pair, in both directions.
Measure ==
  /\ dOut = << >>
  /\ dOut' = << calculateDistance(dIn[1].lat, dIn[1].lng, dIn[2].lat, dIn[2].lng),
                calculateDistance(dIn[2].lat, dIn[2].lng, dIn[1].lat, dIn[1].lng) >>
  /\ UNCHANGED << clientVars, proxyReqs, dIn >>

DistInit ==
  /\ ClientIdle
  /\ proxyReqs = <<>>
  /\ dIn \in { << a, b >> : a \in Grid, b \in Grid }
  /\ dOut = << >>

NextDist == Measure

SpecDist == DistInit /\ [][NextDist]_vars

\* ------------------------------------------------------------------------
\* Properties
\* ------------------------------------------------------------------------

HasNaN(c) == isNaN(c.lat) \/ isNaN(c.lng)

\* The step just taken ran the body of fetchLocations.
BodyRan == hist'.execs = hist.execs + 1

\* The step just taken settled a fetch in flight.
Settled == fetches' # fetches /\ hist'.last \in { "FetchOk", "FetchFail" }

\* q holds every element of data, annotated with its distance from (lat, lng).
WholeAnnotated(q, data, lat, lng) ==
  /\ Len(q) = Len(data)
  /\ { q[i].id : i \in 1..Len(q) } = { data[i].id : i \in 1..Len(data) }
  /\ \A i \in 1..Len(q) :
       q[i].distance =
         DistanceTable[[lat |-> lat, lng |-> lng],
                       [lat |-> q[i].lat, lng |-> q[i].lng]]

\* q is in the order the body's comparator accepts.
OrderedByComparator(q) ==
  \A i, j \in 1..Len(q) : i < j => Comparator(q[i], q[j]) <= 0

NonDecreasing(q) ==
  \A i, j \in 1..Len(q) : i < j => q[i].distance <= q[j].distance

C2_NonDecreasing == NonDecreasing(locations)

\* C3: a run of the body with a NaN latitude or longitude issues no request,
\* sets the input-error message and leaves the ResultSet and the loading
\* flag as they were.
C3_NaNRejected ==
  [][ (BodyRan /\ HasNaN(hist'.execArgs[1])) =>
        /\ fetches' = fetches
        /\ hist'.requests = hist.requests
        /\ error' = ErrInvalid
        /\ locations' = locations
        /\ loading' = loading ]_vars

\* C3 witness: the body has just run with a NaN latitude while an earlier
\* fetch is still in flight and loading.
C3_Witness ==
  /\ hist.last = "Invoke"
  /\ isNaN(hist.execArgs[1].lat)
  /\ error = ErrInvalid
  /\ fetches # {}
  /\ loading

C5_LoadingIffInFlight == loading <=> fetches # {}

\* C9: the response of a fetch older than one already applied is applied
\* all the same: the ResultSet becomes the older request's whole list,
\* annotated with the distances from the older request's position.
C9_StaleApplied ==
  [][ (Settled /\ hist'.last = "FetchOk" /\ hist'.f[1].id < hist.newest) =>
        /\ hist'.applied = hist'.f[1].id
        /\ WholeAnnotated(locations', hist'.data, hist'.f[1].lat, hist'.f[1].lng) ]_vars

\* C9 witness: the ResultSet holds the list of the older of two requests,
\* applied after the newer one's, with distances from a position that is
\* no longer the user's.
C9_Witness ==
  /\ hist.last = "FetchOk"
  /\ hist.applied < hist.newest
  /\ locations # <<>>
  /\ userLocation # Some([lat |-> hist.f[1].lat, lng |-> hist.f[1].lng])
  /\ WholeAnnotated(locations, hist.data, hist.f[1].lat, hist.f[1].lng)

ErrorMessages == { ErrDenied, ErrUnsupported, ErrInvalid, ErrFetch }

\* C6 as stated: a stored route always leads to the location now selected.
C6_RouteOfSelection ==
  directionsResult # Null =>
    /\ selectedLocation # Null
    /\ directionsResult[1].dest =
         [lat |-> selectedLocation[1].lat, lng |-> selectedLocation[1].lng]

\* C7: GET answers 400 "Missing coordinates" without calling the upstream
\* when lat or lng has no value; with both present it calls the upstream
\* exactly once and answers 500 "Failed to fetch locations" if the call
\* throws, else 200 with the upstream's results list as it came.
C7_ThreeOutcomes ==
  \A i \in 1..Len(proxyReqs) :
    LET r == proxyReqs[i]
        missing == r.lat \in { Null, Some("") } \/ r.lng \in { Null, Some("") }
    IN  /\ missing =>
             /\ r.pc = "done"
             /\ r.calls = 0
             /\ r.response =
                  Some([status |-> 400, body |-> ErrorBody("Missing coordinates")])
        /\ ~missing =>
             /\ r.calls = 1
             /\ r.pc = "await" => r.response = Null
             /\ (r.pc = "done" /\ ~r.outcome[1].ok) =>
                  r.response =
                    Some([status |-> 500,
                          body |-> ErrorBody("Failed to fetch locations")])
             /\ (r.pc = "done" /\ r.outcome[1].ok) =>
                  r.response =
                    Some([status |-> 200, body |-> ListBody(r.outcome[1].results)])

\* C7 witness: GET has refused a request that has lat but no lng with a 400,
\* and has relayed a non-empty results list with a 200 to the next request.
C7_Witness ==
  /\ Len(proxyReqs) = 2
  /\ proxyReqs[1].lat # Null /\ proxyReqs[1].lng = Null
  /\ proxyReqs[1].response[1].status = 400
  /\ proxyReqs[2].pc = "done"
  /\ proxyReqs[2].response[1].status = 200
  /\ proxyReqs[2].response[1].body.list # <<>>

C10_ErrorPersists ==
  [][ /\ error # "" => error' # ""
      /\ error' # error =>
           /\ error' \in ErrorMessages
           /\ hist'.last \in { "getLocation", "GeoError", "Invoke", "FetchFail" }
      /\ routeReqs' \subseteq routeReqs /\ routeReqs' # routeReqs => error' = error ]_vars

\* C10 witness: after an input error a later fetch succeeded, a location was
\* selected and its route request failed, and the slot still holds the
\* input error.
C10_Witness ==
  /\ hist.last = "RouteFail"
  /\ error = ErrInvalid
  /\ locations # <<>>
  /\ selectedLocation # Null
  /\ directionsResult = Null

====
